---- MODULE Spec2Model ----
(***************************************************************************)
(* Model of build_hne_viewer.py: the heading classifier, the tree builder  *)
(* (paragraph loop, prune, assign_ids), escape_js_string and main's        *)
(* JSON-writing / HTML-injection pipeline.                                 *)
(*                                                                         *)
(* Strings are sequences of one-character strings.  Three specifications   *)
(* share the module: Spec (build_tree), SpecMain (main) and SpecEsc        *)
(* (escape_js_string on arbitrary strings).                                *)
(***************************************************************************)
EXTENDS Integers, Sequences, FiniteSets, TLC

VARIABLES
    paras,          \* paragraphs (text, style) the loop of build_tree has consumed
    nodes,          \* the section nodes, in creation order; nodes[1] is root
    stack,          \* build_tree's stack, as indices into nodes
    pc,             \* position in build_tree: "loop", "assign_ids", "done"
    mpc,            \* position in main
    docExists,      \* os.path.exists(DOCX_PATH)
    htmlExists,     \* os.path.exists(OUT_HTML)
    tpl,            \* how the HTML template on disk was authored: pre, old, post
    data,           \* json.dumps(data, ensure_ascii=False), as text
    jsonFile,       \* content of OUT_JSON; NoFile until written
    htmlFile,       \* content of OUT_HTML; NoFile when the file does not exist
    html_txt,       \* main's local html_txt
    new_json,       \* main's local new_json
    trace,          \* the operations main has performed, in order
    exitMsg,        \* the SystemExit raised, "" when none
    s,              \* argument of escape_js_string
    escaped         \* its result; NoFile until computed

treeVars == <<paras, nodes, stack, pc>>
mainVars == <<mpc, docExists, htmlExists, tpl, data, jsonFile, htmlFile,
              html_txt, new_json, trace, exitMsg>>
escVars == <<s, escaped>>
vars == <<paras, nodes, stack, pc, mpc, docExists, htmlExists, tpl, data,
          jsonFile, htmlFile, html_txt, new_json, trace, exitMsg, s, escaped>>

(***************************************************************************)
(* Bounds of the model.                                                    *)
(***************************************************************************)
MaxParas == 4
MaxChunks == 3
MaxJsonChunks == 1
MaxStrLen == 5

(***************************************************************************)
(* Text helpers: str.rstrip(), str.lstrip(), str.strip().                  *)
(***************************************************************************)
IsSpace(c) == c = " "

RECURSIVE rstrip(_)
rstrip(t) ==
    IF t # <<>> /\ IsSpace(t[Len(t)]) THEN rstrip(SubSeq(t, 1, Len(t) - 1)) ELSE t

RECURSIVE lstrip(_)
lstrip(t) ==
    IF t # <<>> /\ IsSpace(t[1]) THEN lstrip(Tail(t)) ELSE t

strip(t) == lstrip(rstrip(t))

(***************************************************************************)
(* heading_level: re.match(r"Heading\s*(\d+)$", style.strip(), IGNORECASE) *)
(***************************************************************************)
None == -1

Lower(c) ==
    CASE c = "H" -> "h" [] c = "E" -> "e" [] c = "A" -> "a" [] c = "D" -> "d"
      [] c = "I" -> "i" [] c = "N" -> "n" [] c = "G" -> "g" [] c = "B" -> "b"
      [] OTHER -> c

Digits == <<"0", "1", "2", "3", "4", "5", "6", "7", "8", "9">>

IsDigit(c) == \E d \in 1..10 : Digits[d] = c

DigitVal(c) == (CHOOSE d \in 1..10 : Digits[d] = c) - 1

RECURSIVE int(_)
int(ds) ==
    IF ds = <<>> THEN 0
    ELSE 10 * int(SubSeq(ds, 1, Len(ds) - 1)) + DigitVal(ds[Len(ds)])

HeadingWord == <<"h", "e", "a", "d", "i", "n", "g">>

heading_level(style_name) ==
    LET t == strip(style_name)
        n == Len(HeadingWord)
    IN  IF Len(t) >= n /\ [i \in 1..n |-> Lower(t[i])] = HeadingWord
        THEN LET rest == lstrip(SubSeq(t, n + 1, Len(t)))
             IN  IF rest # <<>> /\ \A i \in 1..Len(rest) : IsDigit(rest[i])
                 THEN int(rest)
                 ELSE None
        ELSE None

(***************************************************************************)
(* Inputs of build_tree: paragraph texts and style names.                  *)
(***************************************************************************)
Texts == { <<" ">>, <<" ", "x", " ">> }

StyleNames ==
    { <<"N", "o", "r", "m", "a", "l">>,
      <<"H", "e", "a", "d", "i", "n", "g", " ", "1", "B">>,
      <<"H", "e", "a", "d", "i", "n", "g", " ", "0">>,
      <<"H", "e", "a", "d", "i", "n", "g", " ", "1">>,
      <<"h", "e", "a", "d", "i", "n", "g", "2">>,
      <<" ", "H", "E", "A", "D", "I", "N", "G", " ", " ", "3", " ">> }

(***************************************************************************)
(* build_tree: the paragraph loop.                                         *)
(***************************************************************************)
RootTitle == <<"HNE Grossing Guide">>

NewNode(title, level) ==
    [title |-> title, level |-> level, children |-> <<>>, content |-> <<>>,
     id |-> <<>>]

\* Which branch of the loop body a paragraph takes (lines 85, 90-91, 97).
ParagraphKindHeadingFirst(txt, style_name) ==
    IF heading_level(style_name) # None /\ heading_level(style_name) # 0
    THEN "heading"
    ELSE IF strip(txt) = <<>> THEN "blank" ELSE "plain"

ParagraphKind(txt, style_name) ==
    IF strip(txt) = <<>> THEN "blank"
    ELSE IF heading_level(style_name) # None /\ heading_level(style_name) # 0
         THEN "heading"
         ELSE "plain"

\* while stack and stack[-1]["level"] >= lvl: stack.pop()
RECURSIVE PopStackGt(_, _, _)
PopStackGt(ns, st, lvl) ==
    IF st # <<>> /\ ns[st[Len(st)]].level > lvl
    THEN PopStackGt(ns, SubSeq(st, 1, Len(st) - 1), lvl)
    ELSE st

RECURSIVE PopStack(_, _, _)
PopStack(ns, st, lvl) ==
    IF st # <<>> /\ ns[st[Len(st)]].level >= lvl
    THEN PopStack(ns, SubSeq(st, 1, Len(st) - 1), lvl)
    ELSE st

\* stack.append(node)
PushNodeForgotten(st, idx) == st

PushNode(st, idx) == Append(st, idx)

\* the content line a plain paragraph contributes (line 98 appends txt)
ContentLineStripped(txt) == strip(txt)

ContentLine(txt) == txt

\* the blank branch (lines 86-87)
AppendBlankAlways(content) == Append(content, <<>>)

AppendBlank(content) ==
    IF content # <<>> /\ content[Len(content)] # <<>>
    THEN Append(content, <<>>)
    ELSE content

LoopBody(ns, st, paragraph_text, style_name) ==
    LET txt == rstrip(paragraph_text)
        kind == ParagraphKind(txt, style_name)
        top == st[Len(st)]
    IN  CASE kind = "blank" ->
               [nodes |-> [ns EXCEPT ![top].content = AppendBlank(@)],
                stack |-> st]
          [] kind = "heading" ->
               LET lvl == heading_level(style_name)
                   node == NewNode(strip(txt), lvl)
                   st2 == PopStack(ns, st, lvl)
                   idx == Len(ns) + 1
                   parent == st2[Len(st2)]
               IN  [nodes |-> Append([ns EXCEPT ![parent].children = Append(@, idx)],
                                     node),
                    stack |-> PushNode(st2, idx)]
          [] OTHER ->
               [nodes |-> [ns EXCEPT ![top].content = Append(@, ContentLine(txt))],
                stack |-> st]

(***************************************************************************)
(* prune(root)                                                             *)
(***************************************************************************)
RECURSIVE PopTrailingBlanks(_)
PopTrailingBlanks(content) ==
    IF content # <<>> /\ content[Len(content)] = <<>>
    THEN PopTrailingBlanks(SubSeq(content, 1, Len(content) - 1))
    ELSE content

RECURSIVE prune(_, _)
RECURSIVE pruneChildren(_, _, _)
pruneChildren(ns, chs, i) ==
    IF i > Len(chs) THEN ns ELSE pruneChildren(prune(ns, chs[i]), chs, i + 1)

prune(ns, n) ==
    pruneChildren([ns EXCEPT ![n].content = PopTrailingBlanks(@)],
                  ns[n].children, 1)

(***************************************************************************)
(* assign_ids(root, []) with the nonlocal counter; f"n{counter:05d}"       *)
(***************************************************************************)
IdWidth == 5

RECURSIVE str(_)
str(n) ==
    IF n < 10 THEN <<Digits[n + 1]>> ELSE Append(str(n \div 10), Digits[(n % 10) + 1])

RECURSIVE ZeroPad(_, _)
ZeroPad(ds, width) == IF Len(ds) >= width THEN ds ELSE ZeroPad(<<"0">> \o ds, width)

FormatId(counter) == <<"n">> \o ZeroPad(str(counter), IdWidth)

\* Both return [nodes, counter].
RECURSIVE assign_ids(_, _, _)
RECURSIVE assignChildren(_, _, _, _)
assignChildren(ns, counter, chs, i) ==
    IF i > Len(chs) THEN [nodes |-> ns, counter |-> counter]
    ELSE LET r == assign_ids(ns, counter, chs[i])
         IN  assignChildren(r.nodes, r.counter, chs, i + 1)

RECURSIVE assign_ids_post(_, _, _)
RECURSIVE assignChildrenPost(_, _, _, _)
assignChildrenPost(ns, counter, chs, i) ==
    IF i > Len(chs) THEN [nodes |-> ns, counter |-> counter]
    ELSE LET r == assign_ids_post(ns, counter, chs[i])
         IN  assignChildrenPost(r.nodes, r.counter, chs, i + 1)

assign_ids_post(ns, counter, n) ==
    LET r == assignChildrenPost(ns, counter, ns[n].children, 1)
    IN  [nodes |-> [r.nodes EXCEPT ![n].id = FormatId(r.counter)],
         counter |-> r.counter + 1]

assign_ids(ns, counter, n) ==
    assignChildren([ns EXCEPT ![n].id = FormatId(counter)], counter + 1,
                   ns[n].children, 1)

(***************************************************************************)
(* build_tree as a state machine.                                          *)
(***************************************************************************)
NoFile == <<"NoFile">>

MainIdle ==
    /\ mpc = "idle"
    /\ docExists = TRUE
    /\ htmlExists = TRUE
    /\ tpl = [has |-> FALSE, pre |-> <<>>, old |-> <<>>, post |-> <<>>]
    /\ data = NoFile
    /\ jsonFile = NoFile
    /\ htmlFile = NoFile
    /\ html_txt = NoFile
    /\ new_json = NoFile
    /\ trace = <<>>
    /\ exitMsg = ""

EscIdle ==
    /\ s = <<>>
    /\ escaped = NoFile

TreeInit ==
    /\ paras = <<>>
    /\ nodes = <<NewNode(RootTitle, 0)>>
    /\ stack = <<1>>
    /\ pc = "loop"

Init == TreeInit /\ MainIdle /\ EscIdle

\* One iteration of "for paragraph_text, style_name in ..." (lines 83-98).
ProcessParagraph ==
    /\ pc = "loop"
    /\ Len(paras) < MaxParas
    /\ \E paragraph_text \in Texts, style_name \in StyleNames :
          /\ paras' = Append(paras, [text |-> paragraph_text, style |-> style_name])
          /\ LET r == LoopBody(nodes, stack, paragraph_text, style_name)
             IN  nodes' = r.nodes /\ stack' = r.stack
    /\ UNCHANGED <<pc, mainVars, escVars>>

\* The paragraph source is exhausted; prune(root) runs (lines 100-106).
Prune ==
    /\ pc = "loop"
    /\ nodes' = prune(nodes, 1)
    /\ pc' = "assign_ids"
    /\ UNCHANGED <<paras, stack, mainVars, escVars>>

\* assign_ids(root, []) and return (lines 108-119).
AssignIds ==
    /\ pc = "assign_ids"
    /\ nodes' = assign_ids(nodes, 0, 1).nodes
    /\ pc' = "done"
    /\ UNCHANGED <<paras, stack, mainVars, escVars>>

Next == ProcessParagraph \/ Prune \/ AssignIds

Spec == Init /\ [][Next]_vars

(***************************************************************************)
(* str.replace(pat, rep): every non-overlapping occurrence, left to right. *)
(***************************************************************************)
MatchAt(t, i, pat) ==
    i + Len(pat) - 1 <= Len(t) /\ SubSeq(t, i, i + Len(pat) - 1) = pat

RECURSIVE ReplaceFrom(_, _, _, _)
ReplaceFrom(t, i, pat, rep) ==
    IF i > Len(t) THEN <<>>
    ELSE IF MatchAt(t, i, pat)
         THEN rep \o ReplaceFrom(t, i + Len(pat), pat, rep)
         ELSE <<t[i]>> \o ReplaceFrom(t, i + 1, pat, rep)

replace(t, pat, rep) == ReplaceFrom(t, 1, pat, rep)

BS == "\\"

\* s.replace("\\", "\\\\").replace("</", "<\\/")
escape_backslashes_only(x) == replace(x, <<BS>>, <<BS, BS>>)

escape_js_string(x) ==
    replace(replace(x, <<BS>>, <<BS, BS>>), <<"<", "/">>, <<"<", BS, "/">>)

(***************************************************************************)
(* The substitution of main (lines 145-150).  "O" stands for the whole     *)
(* opening tag <script id="hne-data" type="application/json"> and "S" for  *)
(* the word script, so "<", "/", "S", ">" spell the closing tag.           *)
(***************************************************************************)
OPEN == <<"O">>
CLOSE == <<"<", "/", "S", ">">>

\* the first index k >= j where the closing tag starts, 0 when there is none
FirstClose(h, j) ==
    LET ks == {k \in j..Len(h) : MatchAt(h, k, CLOSE)}
    IN  IF ks = {} THEN 0 ELSE CHOOSE k \in ks : \A m \in ks : k <= m

\* lambda m: m.group(1) + new_json + m.group(3)
ReplacementMerged(g1, g2, g3, nj) == g1 \o g2 \o nj \o g3

Replacement(g1, g2, g3, nj) == g1 \o nj \o g3

\* re.sub(r'(<script ...>)(.*?)(</script>)', ..., html_txt, flags=DOTALL)
RECURSIVE SubFrom(_, _, _)
SubFrom(h, i, nj) ==
    IF i > Len(h) THEN <<>>
    ELSE LET k == IF MatchAt(h, i, OPEN) THEN FirstClose(h, i + Len(OPEN)) ELSE 0
         IN  IF k # 0
             THEN Replacement(OPEN, SubSeq(h, i + Len(OPEN), k - 1), CLOSE, nj)
                      \o SubFrom(h, k + Len(CLOSE), nj)
             ELSE <<h[i]>> \o SubFrom(h, i + 1, nj)

re_sub(h, nj) == SubFrom(h, 1, nj)

(***************************************************************************)
(* Inputs of main: the HTML template on disk and the serialised data.      *)
(***************************************************************************)
Chunks == { OPEN, <<"<", "/", "S">>, <<">">>, <<"a">> }

JsonChunks == { CLOSE, <<BS>>, <<"<">> }

SeqsUpTo(S, n) == UNION {[1..k -> S] : k \in 0..n}

RECURSIVE Flat(_)
Flat(cs) == IF cs = <<>> THEN <<>> ELSE Head(cs) \o Flat(Tail(cs))

\* the template file as its author wrote it
Render(t) ==
    IF t.has THEN Flat(t.pre) \o OPEN \o Flat(t.old) \o CLOSE \o Flat(t.post)
    ELSE Flat(t.pre) \o Flat(t.post)

Templates ==
    {[has |-> h, pre |-> SubSeq(c, 1, a), old |-> SubSeq(c, a + 1, b),
      post |-> SubSeq(c, b + 1, Len(c))] :
        <<c, a, b, h>> \in
            {x \in SeqsUpTo(Chunks, MaxChunks) \X (0..MaxChunks) \X (0..MaxChunks)
                   \X BOOLEAN :
                x[2] <= x[3] /\ x[3] <= Len(x[1]) /\ (x[4] \/ x[2] = x[3])}}

(***************************************************************************)
(* main as a state machine.                                                *)
(***************************************************************************)
MainInit ==
    /\ TreeInit
    /\ EscIdle
    /\ mpc = "start"
    /\ docExists \in BOOLEAN
    /\ htmlExists \in BOOLEAN
    /\ tpl \in Templates
    /\ htmlExists = FALSE =>
          tpl = [has |-> FALSE, pre |-> <<>>, old |-> <<>>, post |-> <<>>]
    /\ htmlFile = IF htmlExists THEN Render(tpl) ELSE NoFile
    /\ data = NoFile
    /\ jsonFile = NoFile
    /\ html_txt = NoFile
    /\ new_json = NoFile
    /\ trace = <<>>
    /\ exitMsg = ""

frame == <<treeVars, escVars, docExists, htmlExists, tpl>>

\* lines 127-128: the input document is missing
ExitNoDocx ==
    /\ mpc = "start"
    /\ ~docExists
    /\ mpc' = "exit"
    /\ exitMsg' = "Can't find DOCX_PATH in this folder."
    /\ UNCHANGED <<frame, data, jsonFile, htmlFile, html_txt, new_json, trace>>

\* lines 127, 130: data = build_tree(DOCX_PATH), whatever the document holds
BuildTree ==
    /\ mpc = "start"
    /\ docExists
    /\ data' \in {Flat(c) : c \in SeqsUpTo(JsonChunks, MaxJsonChunks)}
    /\ trace' = Append(trace, "build_tree")
    /\ mpc' = "write_json"
    /\ UNCHANGED <<frame, jsonFile, htmlFile, html_txt, new_json, exitMsg>>

\* lines 132-133: json.dump(data, f, ...) into OUT_JSON, opened with "w"
WriteJsonIfHtml ==
    /\ mpc = "write_json"
    /\ jsonFile' = IF htmlExists THEN data ELSE jsonFile
    /\ trace' = IF htmlExists THEN Append(trace, "write_json") ELSE trace
    /\ mpc' = "check_html"
    /\ UNCHANGED <<frame, data, htmlFile, html_txt, new_json, exitMsg>>

WriteJson ==
    /\ mpc = "write_json"
    /\ jsonFile' = data
    /\ trace' = Append(trace, "write_json")
    /\ mpc' = "check_html"
    /\ UNCHANGED <<frame, data, htmlFile, html_txt, new_json, exitMsg>>

\* lines 135-136: the HTML template is missing
ExitNoHtml ==
    /\ mpc = "check_html"
    /\ ~htmlExists
    /\ mpc' = "exit"
    /\ exitMsg' = "Can't find OUT_HTML."
    /\ UNCHANGED <<frame, data, jsonFile, htmlFile, html_txt, new_json, trace>>

\* lines 135, 141-142: html_txt = f.read()
ReadHtml ==
    /\ mpc = "check_html"
    /\ htmlExists
    /\ html_txt' = htmlFile
    /\ trace' = Append(trace, "read_html")
    /\ mpc' = "inject"
    /\ UNCHANGED <<frame, data, jsonFile, htmlFile, new_json, exitMsg>>

\* lines 144-150
Inject ==
    /\ mpc = "inject"
    /\ new_json' = escape_js_string(data)
    /\ html_txt' = re_sub(html_txt, escape_js_string(data))
    /\ mpc' = "write_html"
    /\ UNCHANGED <<frame, data, jsonFile, htmlFile, trace, exitMsg>>

\* lines 152-153
WriteHtml ==
    /\ mpc = "write_html"
    /\ htmlFile' = html_txt
    /\ trace' = Append(trace, "write_html")
    /\ mpc' = "print"
    /\ UNCHANGED <<frame, data, jsonFile, html_txt, new_json, exitMsg>>

\* line 155
PrintDone ==
    /\ mpc = "print"
    /\ trace' = Append(trace, "print")
    /\ mpc' = "done"
    /\ UNCHANGED <<frame, data, jsonFile, htmlFile, html_txt, new_json, exitMsg>>

MainNext ==
    \/ ExitNoDocx
    \/ BuildTree
    \/ WriteJson
    \/ ExitNoHtml
    \/ ReadHtml
    \/ Inject
    \/ WriteHtml
    \/ PrintDone

SpecMain == MainInit /\ [][MainNext]_vars

(***************************************************************************)
(* escape_js_string applied to arbitrary strings.                          *)
(***************************************************************************)
EscAlphabet == {"<", "/", BS, "a"}

EscInit ==
    /\ TreeInit
    /\ MainIdle
    /\ s \in SeqsUpTo(EscAlphabet, MaxStrLen)
    /\ escaped = NoFile

Escape ==
    /\ escaped = NoFile
    /\ escaped' = escape_js_string(s)
    /\ UNCHANGED <<s, treeVars, mainVars>>

EscNext == Escape

SpecEsc == EscInit /\ [][EscNext]_vars

(***************************************************************************)
(* Properties of build_tree.                                               *)
(***************************************************************************)
IsBlankPara(i) == strip(paras[i].text) = <<>>

\* paragraphs that the classifier gives a non-zero level and whose text is not blank
HeadingParaSet ==
    {i \in 1..Len(paras) :
        ~IsBlankPara(i) /\ heading_level(paras[i].style) \notin {None, 0}}

\* C1 (as claimed): the number of nodes other than the root equals the number
\* of paragraphs whose style name heading_level classifies as a heading
\* (returns an integer rather than None).
C1_NodeCountIsClassifiedCount ==
    Len(nodes) - 1 =
        Cardinality({i \in 1..Len(paras) : heading_level(paras[i].style) # None})

\* C1 (amended): the number of nodes other than the root equals the number of
\* paragraphs whose text is not whitespace-only and whose style name
\* heading_level classifies with a non-zero level.
C1_NodeCountIsNonBlankHeadingCount ==
    Len(nodes) - 1 = Cardinality(HeadingParaSet)

C1_Witness ==
    /\ pc = "done"
    /\ Len(nodes) > 1
    /\ \E i \in 1..Len(paras) :
          IsBlankPara(i) /\ heading_level(paras[i].style) \notin {None, 0}
    /\ \E i \in 1..Len(paras) :
          ~IsBlankPara(i) /\ heading_level(paras[i].style) = 0

StrictHierarchy ==
    \A n \in 1..Len(nodes) :
        \A k \in 1..Len(nodes[n].children) :
            nodes[nodes[n].children[k]].level > nodes[n].level

AttachUnderNearestOpen ==
    (pc = "loop" /\ Len(nodes') = Len(nodes) + 1) =>
        LET new == Len(nodes')
            L == nodes'[new].level
            open == {i \in 1..Len(stack) : nodes[stack[i]].level < L}
        IN  /\ open # {}
            /\ LET k == CHOOSE i \in open : \A j \in open : j <= i
               IN  /\ \A j \in (k + 1)..Len(stack) : nodes[stack[j]].level >= L
                   /\ stack' = Append(SubSeq(stack, 1, k), new)
                   /\ nodes'[stack[k]].children =
                          Append(nodes[stack[k]].children, new)
                   /\ \A n \in 1..Len(nodes) :
                          n # stack[k] => nodes'[n].children = nodes[n].children

\* C2: after each paragraph every node's level is strictly greater than its
\* parent's, and a new heading of level L is attached as last child of the
\* nearest open node of level < L, all open nodes of level >= L being popped.
C2_StrictNesting == [](StrictHierarchy) /\ [][AttachUnderNearestOpen]_vars

C2_Witness ==
    /\ Len(nodes) = 4
    /\ nodes[2].level = 2 /\ nodes[3].level = 3 /\ nodes[4].level = 1
    /\ nodes[1].children = <<2, 4>>
    /\ nodes[2].children = <<3>>
    /\ stack = <<1, 4>>

RECURSIVE PreOrder(_)
RECURSIVE PreOrderOfAll(_, _)
PreOrderOfAll(chs, i) ==
    IF i > Len(chs) THEN <<>> ELSE PreOrder(chs[i]) \o PreOrderOfAll(chs, i + 1)

PreOrder(n) == <<n>> \o PreOrderOfAll(nodes[n].children, 1)

FiveDigitId(k) ==
    <<"n", Digits[((k \div 10000) % 10) + 1], Digits[((k \div 1000) % 10) + 1],
      Digits[((k \div 100) % 10) + 1], Digits[((k \div 10) % 10) + 1],
      Digits[(k % 10) + 1]>>

\* C3: in the returned tree of N nodes the ids met in pre-order are exactly
\* n00000, n00001, ..., n(N-1) with five digits, and no id is used twice.
C3_PreOrderIds ==
    pc = "done" =>
        LET order == PreOrder(1)
        IN  /\ Len(order) = Len(nodes)
            /\ \A k \in 1..Len(order) : nodes[order[k]].id = FiveDigitId(k - 1)
            /\ \A a, b \in 1..Len(nodes) : a # b => nodes[a].id # nodes[b].id

C3_Witness ==
    /\ pc = "done"
    /\ Len(nodes) = 5
    /\ nodes[1].children = <<2, 4>>
    /\ nodes[2].children = <<3>>
    /\ nodes[4].children = <<5>>
    /\ nodes[5].id = <<"n", "0", "0", "0", "0", "4">>

NoDoubleOrTrailingBlank(content) ==
    /\ \A k \in 1..(Len(content) - 1) : ~(content[k] = <<>> /\ content[k + 1] = <<>>)
    /\ content # <<>> => content[Len(content)] # <<>>

\* C4: in the returned tree no node's content has two adjacent blank
\* sentinels or ends with a blank sentinel.
C4_BlanksCollapsedAndPruned ==
    pc = "done" => \A n \in 1..Len(nodes) : NoDoubleOrTrailingBlank(nodes[n].content)

C4_Witness ==
    /\ pc = "done"
    /\ \E i \in 1..(Len(paras) - 1) : IsBlankPara(i) /\ IsBlankPara(i + 1)
    /\ \E n \in 1..Len(nodes) :
          /\ Len(nodes[n].content) = 3
          /\ nodes[n].content[2] = <<>>

IsPlainStep ==
    /\ pc = "loop"
    /\ Len(paras') = Len(paras) + 1
    /\ LET p == paras'[Len(paras')]
       IN  strip(p.text) # <<>> /\ heading_level(p.style) = None

\* C8 (as claimed): the content line appended for a non-blank paragraph whose
\* style yields no heading level is its text stripped of leading and
\* trailing whitespace.
C8_ContentLineFullyStripped ==
    [][IsPlainStep =>
          LET top == stack[Len(stack)]
          IN  nodes'[top].content =
                  Append(nodes[top].content, strip(paras'[Len(paras')].text))]_vars

\* C8 (amended): the content line appended for a non-blank paragraph whose
\* style yields no heading level is its text with trailing whitespace
\* stripped only; leading whitespace is kept.
C8_ContentLineRightStripped ==
    [][IsPlainStep =>
          LET top == stack[Len(stack)]
          IN  nodes'[top].content =
                  Append(nodes[top].content, rstrip(paras'[Len(paras')].text))]_vars

C8_Witness ==
    \E n \in 1..Len(nodes) :
        \E k \in 1..Len(nodes[n].content) :
            LET line == nodes[n].content[k]
            IN  /\ Len(line) = 2
                /\ IsSpace(line[1])
                /\ ~IsSpace(line[2])
                /\ heading_level(paras[Len(paras)].style) = None

IsPrefix(a, b) == Len(a) <= Len(b) /\ a = SubSeq(b, 1, Len(a))

RECURSIVE HeadingParaSeq(_)
HeadingParaSeq(i) ==
    IF i = 0 THEN <<>>
    ELSE IF i \in HeadingParaSet THEN Append(HeadingParaSeq(i - 1), i)
         ELSE HeadingParaSeq(i - 1)

TextLines(content) == Cardinality({k \in 1..Len(content) : content[k] # <<>>})

\* hs[n - 1] is the paragraph that opened node n; node n is the stack top until
\* the next heading paragraph, which opens node n + 1.
ContentPrecedesNextHeading ==
    LET hs == HeadingParaSeq(Len(paras))
        OpenedAt(n) == IF n = 1 THEN 0 ELSE hs[n - 1]
        ClosedAt(n) == IF n = Len(nodes) THEN Len(paras) + 1 ELSE hs[n]
    IN  /\ Len(nodes) = Len(hs) + 1
        /\ \A n \in 1..Len(nodes) :
              TextLines(nodes[n].content) =
                  Cardinality({i \in (OpenedAt(n) + 1)..(ClosedAt(n) - 1) :
                                  ~IsBlankPara(i)})

OnlyChildlessTopGrows ==
    \A n \in 1..Len(nodes) :
        /\ nodes[n].children # <<>> => IsPrefix(nodes'[n].content, nodes[n].content)
        /\ Len(nodes'[n].content) > Len(nodes[n].content) =>
              n = stack[Len(stack)] /\ nodes'[n].children = <<>>

\* C9: once a node has a child its content is never appended to again; only
\* the childless stack top receives lines, so every text line of a node comes
\* from the paragraphs between its own heading and the next heading of the
\* document, before its first child.
C9_NoContentAfterFirstChild ==
    [](ContentPrecedesNextHeading) /\ [][OnlyChildlessTopGrows]_vars

C9_Witness ==
    /\ Len(paras) = 4
    /\ Len(nodes) = 3
    /\ nodes[2].children = <<3>>
    /\ Len(nodes[2].content) = 1
    /\ Len(nodes[3].content) = 1
    /\ Len(nodes[1].content) = 0

(***************************************************************************)
(* Properties of escape_js_string and main.                                *)
(***************************************************************************)
Occurs(t, pat) == \E i \in 1..Len(t) : MatchAt(t, i, pat)

Count(t, pat) == Cardinality({i \in 1..Len(t) : MatchAt(t, i, pat)})

\* C5: the text escape_js_string produces has no occurrence of "</": each
\* backslash of the input has become two and each "</" has become "<\/".
C5_NoCloseSequence ==
    escaped # NoFile =>
        /\ ~Occurs(escaped, <<"<", "/">>)
        /\ Len(escaped) = Len(s) + Count(s, <<BS>>) + Count(s, <<"<", "/">>)
        /\ Count(escaped, <<"<", BS, "/">>) >= Count(s, <<"<", "/">>)
        /\ Count(escaped, <<BS>>) = 2 * Count(s, <<BS>>) + Count(s, <<"<", "/">>)

C5_Witness ==
    /\ escaped # NoFile
    /\ Occurs(s, <<BS, "<", "/">>)
    /\ Count(s, <<"<", "/">>) = 2

Injected == mpc \in {"write_html", "print", "done"}

SinglePlaceholder ==
    /\ tpl.has
    /\ ~Occurs(Flat(tpl.pre), OPEN)
    /\ ~Occurs(Flat(tpl.post), OPEN)

WholeOldReplaced ==
    html_txt = Flat(tpl.pre) \o OPEN \o new_json \o CLOSE \o Flat(tpl.post)

\* C6 (as claimed): when the old inner text of the placeholder contains the
\* text "</script", injection replaces the whole old inner text by the new
\* escaped JSON and nothing of the old content remains.
C6_OldContentDiscarded ==
    (Injected /\ SinglePlaceholder /\ Occurs(Flat(tpl.old), <<"<", "/", "S">>))
        => WholeOldReplaced

\* C6 (amended): when the old inner text of the placeholder contains the text
\* "</script" but not the complete closing tag "</script>", injection replaces
\* the whole old inner text by the new escaped JSON and nothing of the old
\* content remains.
C6_OldContentDiscardedUnlessClosed ==
    (Injected /\ SinglePlaceholder /\ Occurs(Flat(tpl.old), <<"<", "/", "S">>)
        /\ ~Occurs(Flat(tpl.old), CLOSE))
        => WholeOldReplaced

C6_Witness ==
    /\ mpc = "done"
    /\ SinglePlaceholder
    /\ tpl.old = << <<"<", "/", "S">>, <<"a">> >>
    /\ data = CLOSE
    /\ htmlFile = OPEN \o <<"<", BS, "/", "S", ">">> \o CLOSE

InitialHtml == IF htmlExists THEN Render(tpl) ELSE NoFile

\* C7: when the document exists and the HTML template does not, the fatal
\* exit comes after the JSON file is written, before any read or write of the
\* HTML file and without the confirmation message; when the document is
\* missing, the exit comes before the tree is built and before either output
\* file is written.
C7_ExitOrdering ==
    /\ (mpc = "exit" /\ docExists) =>
          /\ ~htmlExists
          /\ trace = <<"build_tree", "write_json">>
          /\ jsonFile = data
          /\ data # NoFile
          /\ htmlFile = NoFile
    /\ (mpc = "exit" /\ ~docExists) =>
          /\ trace = <<>>
          /\ data = NoFile
          /\ jsonFile = NoFile
          /\ htmlFile = InitialHtml
    /\ (mpc # "exit") => exitMsg = ""

C7_Witness ==
    /\ mpc = "exit"
    /\ docExists
    /\ ~htmlExists
    /\ jsonFile = CLOSE

\* C10: applying the substitution of main a second time with the same data
\* leaves the HTML text exactly as the first application left it.
C10_InjectionIdempotent ==
    Injected => re_sub(html_txt, new_json) = html_txt

C10_Witness ==
    /\ mpc = "done"
    /\ tpl.has
    /\ Occurs(Flat(tpl.old), CLOSE)
    /\ Occurs(Flat(tpl.post), OPEN)
    /\ Occurs(data, CLOSE)
    /\ htmlFile # Render(tpl)

====
